---- MODULE Spec2Model ----
(***************************************************************************)
(* Model of the dynamic behaviour of the My-Portfolio site: the Content    *)
(* Lister (getBlogPosts), the Blog page, the sitemap and the view counter  *)
(* (increment / read against the views table).                             *)
(***************************************************************************)
EXTENDS Integers, Sequences, FiniteSets, TLC

\* ------------------------------------------------------------------ bounds
MaxDocs == 3        \* documents in the content directory
MaxIncr == 3        \* increment calls issued in one behaviour
MaxReaders == 1     \* read calls in flight together

\* --------------------------------------------------------------- constants
SlugNames == <<"a", "b", "c">>          \* file names, in lexicographic order
Dates == {20230101, 20230601}           \* ISO dates yyyy-mm-dd as yyyymmdd
Fields == {"title", "publishedAt", "summary"}
Origin == "https://leerob.io"
Routes == <<"", "/about", "/blog", "/uses">>

Slugs == {SlugNames[i] : i \in 1..Len(SlugNames)}
ViewSlugs == {"a", "b"}                 \* slugs whose views are counted and read

SlugOrd(s) == CHOOSE i \in 1..Len(SlugNames) : SlugNames[i] = s

\* ------------------------------------------------------- content documents
\* A document of the content directory: the slug is the file name, the
\* metadata is the parsed front-matter; a field the author left out is
\* absent from the metadata (undefined in the program).
Metadata(s, d, missing) ==
    [f \in Fields \ {missing} |->
        IF f = "title" THEN "Title " \o s
        ELSE IF f = "summary" THEN "Summary " \o s
        ELSE d]

Doc(s, d, missing) == [slug |-> s, metadata |-> Metadata(s, d, missing)]

AllDocs ==
    {Doc(s, d, "none") : s \in Slugs, d \in Dates}
        \cup {Doc(s, d, m) : s \in Slugs, d \in Dates, m \in {"title", "summary"}}
        \cup {Doc(s, 0, "publishedAt") : s \in Slugs}

RECURSIVE Collections(_)
\* The directory listings of at most n documents with pairwise distinct file
\* names, in any enumeration order.
Collections(n) ==
    IF n = 0 THEN {<< >>}
    ELSE LET shorter == Collections(n - 1)
             full == {c \in shorter : Len(c) = n - 1}
             fresh(c) == {d \in AllDocs : \A i \in 1..Len(c) : c[i].slug # d.slug}
         IN  shorter \cup UNION {{Append(c, d) : d \in fresh(c)} : c \in full}

\* The collection of the worked example: a.mdx of 2023-01-01, b.mdx of 2023-06-01.
ExampleDocs == <<Doc("a", 20230101, "none"), Doc("b", 20230601, "none")>>

\* ---------------------------------------------------------- Content Lister
\* Mutant: only the publication date is required.
ValidDateOnly(doc) == "publishedAt" \in DOMAIN doc.metadata

Valid(doc) == Fields \subseteq DOMAIN doc.metadata

\* Mutant: oldest first.
BeforeAscending(x, y) ==
    \/ x.metadata.publishedAt < y.metadata.publishedAt
    \/ /\ x.metadata.publishedAt = y.metadata.publishedAt
       /\ SlugOrd(x.slug) < SlugOrd(y.slug)

\* Mutant: equal dates are left in the order of enumeration.
BeforeDateOnly(x, y) == x.metadata.publishedAt > y.metadata.publishedAt

\* x is listed before y: later publication date first, equal dates by slug.
Before(x, y) ==
    \/ x.metadata.publishedAt > y.metadata.publishedAt
    \/ /\ x.metadata.publishedAt = y.metadata.publishedAt
       /\ SlugOrd(x.slug) < SlugOrd(y.slug)

\* Mutant: the record is written over the one it should precede.
InsertOverwrite(p, sorted) ==
    LET later == {i \in 1..Len(sorted) : Before(p, sorted[i])}
        k == IF later = {} THEN Len(sorted) + 1
             ELSE CHOOSE i \in later : \A j \in later : i <= j
    IN  SubSeq(sorted, 1, k - 1) \o <<p>> \o SubSeq(sorted, k + 1, Len(sorted))

Insert(p, sorted) ==
    LET later == {i \in 1..Len(sorted) : Before(p, sorted[i])}
        k == IF later = {} THEN Len(sorted) + 1
             ELSE CHOOSE i \in later : \A j \in later : i <= j
    IN  SubSeq(sorted, 1, k - 1) \o <<p>> \o SubSeq(sorted, k, Len(sorted))

RECURSIVE SortPosts(_)
SortPosts(s) == IF s = << >> THEN << >> ELSE Insert(Head(s), SortPosts(Tail(s)))

\* The listing of a collection under a MalformedMetadata policy: "exclude"
\* drops every malformed document, "fail" fails the whole listing.
getBlogPosts(ds, pol) ==
    IF pol = "fail" /\ \E i \in 1..Len(ds) : ~Valid(ds[i])
    THEN [ok |-> FALSE, posts |-> << >>]
    ELSE [ok |-> TRUE, posts |-> SortPosts(SelectSeq(ds, Valid))]

\* An optional value: << >> is undefined, <<x>> is the value x.
Get(md, f) == IF f \in DOMAIN md THEN <<md[f]>> ELSE << >>

\* ----------------------------------------------------------------- sitemap
PostEntry(post) ==
    [url |-> Origin \o "/blog/" \o post.slug,
     lastModified |-> Get(post.metadata, "publishedAt")]

RouteEntry(route, today) == [url |-> Origin \o route, lastModified |-> <<today>>]

\* Mutant: the post entries are put before the routes.
sitemapBlogsFirst(posts, today) ==
    [i \in 1..Len(posts) |-> PostEntry(posts[i])]
        \o [i \in 1..Len(Routes) |-> RouteEntry(Routes[i], today)]

sitemap(posts, today) ==
    [i \in 1..Len(Routes) |-> RouteEntry(Routes[i], today)]
        \o [i \in 1..Len(posts) |-> PostEntry(posts[i])]

\* -------------------------------------------------------------- formatDate
\* A calendar date is the integer yyyymmdd, as in '2023-07-10'.
FormatYears == {2022, 2023}
FormatMonths == {1, 7, 12}
FormatDays == {1, 10, 31}
FormatDates ==
    {y * 10000 + m * 100 + d : y \in FormatYears, m \in FormatMonths, d \in FormatDays}

\* new Date(`${date}T00:00:00`) and its getFullYear, getMonth, getDate.
FullYear(date) == date \div 10000

MonthOf(date) == (date \div 100) % 100

DateOf(date) == date % 100

MonthNames ==
    <<"January", "February", "March", "April", "May", "June", "July",
      "August", "September", "October", "November", "December">>

\* formatDate(date) evaluated on the day today: the full date of
\* toLocaleString('en-us', {month: 'long', day: 'numeric', year: 'numeric'})
\* and the relative label, n with its unit.
formatDate(date, today) ==
    LET yearsAgo == FullYear(today) - FullYear(date)
        monthsAgo == MonthOf(today) - MonthOf(date)
        daysAgo == DateOf(today) - DateOf(date)
    IN  [fullDate |-> <<MonthNames[MonthOf(date)], DateOf(date), FullYear(date)>>,
         label |-> IF yearsAgo > 0 THEN [n |-> yearsAgo, unit |-> "y ago"]
                   ELSE IF monthsAgo > 0 THEN [n |-> monthsAgo, unit |-> "mo ago"]
                   ELSE IF daysAgo > 0 THEN [n |-> daysAgo, unit |-> "d ago"]
                   ELSE [n |-> 0, unit |-> "Today"]]

\* --------------------------------------------------------------- Blog page
\* Array.prototype.find: the index of the first post with the slug, 0 if none.
Find(posts, slug) ==
    LET hits == {i \in 1..Len(posts) : posts[i].slug = slug}
    IN  IF hits = {} THEN 0 ELSE CHOOSE i \in hits : \A j \in hits : i <= j

\* Mutant: the Views element is rendered and its read is awaited unguarded.
RenderPostWithViews(post, up, v) ==
    IF up
    THEN [kind |-> "page",
          body |-> <<[slug |-> post.slug,
                      headline |-> Get(post.metadata, "title"),
                      datePublished |-> Get(post.metadata, "publishedAt"),
                      description |-> Get(post.metadata, "summary"),
                      views |-> <<IF post.slug \in DOMAIN v THEN v[post.slug] ELSE 0>>]>>]
    ELSE [kind |-> "StorageUnavailable", body |-> << >>]

\* The section returned for a post. The Views element is commented out, so
\* the page reads nothing from the store (up, v) and shows no count.
RenderPost(post, up, v) ==
    [kind |-> "page",
     body |-> <<[slug |-> post.slug,
                 headline |-> Get(post.metadata, "title"),
                 datePublished |-> Get(post.metadata, "publishedAt"),
                 description |-> Get(post.metadata, "summary"),
                 views |-> << >>]>>]

\* Mutant: the check of the lookup is missing, the page dereferences undefined.
BlogPageNoGuard(posts, slug, up, v) ==
    LET i == Find(posts, slug)
    IN  IF i = 0 THEN [kind |-> "TypeError", body |-> << >>]
        ELSE RenderPost(posts[i], up, v)

\* notFound() throws NEXT_NOT_FOUND: nothing after it runs.
BlogPage(posts, slug, up, v) ==
    LET i == Find(posts, slug)
    IN  IF i = 0 THEN [kind |-> "notFound", body |-> << >>]
        ELSE RenderPost(posts[i], up, v)

\* Mutant: the render tracks the view.
TrackViewOn(fl, slug) == [fl EXCEPT ![slug] = @ + 1]

\* Mutant: a render that ends aborts a statement of its slug in flight.
TrackViewAbort(fl, slug) == [fl EXCEPT ![slug] = IF @ > 0 THEN @ - 1 ELSE 0]

\* The increment statements in flight after a render of slug: the
\* ViewCounter import is unused, a render issues none.
TrackView(fl, slug) == fl

\* ------------------------------------------------------------ view counter
\* Mutant: ON CONFLICT (slug) DO NOTHING.
UpsertDoNothing(v, slug) ==
    IF slug \in DOMAIN v THEN v
    ELSE [s \in DOMAIN v \cup {slug} |-> IF s = slug THEN 1 ELSE v[s]]

\* Mutant: DO UPDATE SET count = EXCLUDED.count + 1.
UpsertExcluded(v, slug) ==
    IF slug \in DOMAIN v THEN [v EXCEPT ![slug] = 2]
    ELSE [s \in DOMAIN v \cup {slug} |-> IF s = slug THEN 1 ELSE v[s]]

\* Mutant: DO UPDATE SET count = views.count - 1.
UpsertMinus(v, slug) ==
    IF slug \in DOMAIN v THEN [v EXCEPT ![slug] = @ - 1]
    ELSE [s \in DOMAIN v \cup {slug} |-> IF s = slug THEN 1 ELSE v[s]]

\* Mutant: DO UPDATE without the row of the conflict: every row is raised.
UpsertEveryRow(v, slug) ==
    IF slug \in DOMAIN v THEN [s \in DOMAIN v |-> v[s] + 1]
    ELSE [s \in DOMAIN v \cup {slug} |-> IF s = slug THEN 1 ELSE v[s]]

\* Mutant: the row is inserted with count 0, to be updated by a second
\* statement.
UpsertInsertZero(v, slug) ==
    IF slug \in DOMAIN v THEN [v EXCEPT ![slug] = @ + 1]
    ELSE [s \in DOMAIN v \cup {slug} |-> IF s = slug THEN 0 ELSE v[s]]

\* Mutant: UPDATE views SET count = count + 1 WHERE slug = slug, no INSERT.
UpsertUpdateOnly(v, slug) ==
    IF slug \in DOMAIN v THEN [v EXCEPT ![slug] = @ + 1] ELSE v

\* INSERT INTO views (slug, count) VALUES (slug, 1)
\* ON CONFLICT (slug) DO UPDATE SET count = views.count + 1
Upsert(v, slug) ==
    IF slug \in DOMAIN v THEN [v EXCEPT ![slug] = @ + 1]
    ELSE [s \in DOMAIN v \cup {slug} |-> IF s = slug THEN 1 ELSE v[s]]

\* Mutant: a missing row is not mapped to 0.
ViewsReadNoDefault(v, slug) == IF slug \in DOMAIN v THEN v[slug] ELSE -1

\* read(slug): the count of the row, 0 if there is no row.
ViewsRead(v, slug) == IF slug \in DOMAIN v THEN v[slug] ELSE 0

\* ------------------------------------------------------------------- state
VARIABLES
    docs,        \* the content directory, in enumeration order
    policy,      \* the MalformedMetadata policy of the lister
    storeUp,     \* the backing store answers
    views,       \* the views table: slug -> count, for the slugs with a row
    inflight,    \* slug -> increment statements issued and not yet answered
    committed,   \* slug -> increment statements the store has committed
    failed,      \* slug -> increment statements that failed
    concurrent,  \* slugs that had two increment statements in flight at once
    rd,          \* slug -> read calls issued and not yet answered
    ret,         \* the last result of a read call
    resp         \* the last response of the Blog page or the sitemap; a Blog
                 \* response is kept with the requested slug and with up,
                 \* whether the store answered when the page was rendered

\* The reads of one caller that issues them one after another, kept with
\* the history of the slug: lo is <<a>> while a read is in flight, a the
\* increments committed when it was called; last is the value the caller's
\* previous read of each slug returned; obs is its last answered read.
VARIABLE cl

vars == <<docs, policy, storeUp, views, inflight, committed, failed,
          concurrent, rd, ret, resp, cl>>

Started(s) == inflight[s] + committed[s] + failed[s]

RECURSIVE Sum(_, _)
Sum(f, S) == IF S = {} THEN 0
             ELSE LET x == CHOOSE y \in S : TRUE IN f[x] + Sum(f, S \ {x})

TotalStarted ==
    Sum(inflight, ViewSlugs) + Sum(committed, ViewSlugs) + Sum(failed, ViewSlugs)

NoRet == [slug |-> "", value |-> << >>, error |-> << >>,
          completed |-> << >>, norow |-> FALSE]

NoResp == [op |-> "none", kind |-> "none", body |-> << >>]

NoObs == [slug |-> "", v |-> 0, lo |-> 0, hi |-> 0, prev |-> << >>]

InitViews ==
    /\ storeUp = TRUE
    /\ views = << >>
    /\ inflight = [s \in ViewSlugs |-> 0]
    /\ committed = [s \in ViewSlugs |-> 0]
    /\ failed = [s \in ViewSlugs |-> 0]
    /\ concurrent = {}
    /\ rd = [s \in ViewSlugs |-> 0]
    /\ ret = NoRet
    /\ resp = NoResp
    /\ cl = [lo |-> << >>, last |-> [s \in ViewSlugs |-> << >>], obs |-> NoObs]

Init ==
    /\ docs = ExampleDocs
    /\ policy = "exclude"
    /\ InitViews

InitContent ==
    /\ docs \in Collections(MaxDocs)
    /\ policy \in {"exclude", "fail"}
    /\ InitViews

\* ----------------------------------------------------------------- actions
\* A caller calls increment(slug): the statement is sent to the store.
IncrementCall(s) ==
    /\ TotalStarted < MaxIncr
    /\ inflight' = [inflight EXCEPT ![s] = @ + 1]
    /\ concurrent' = IF inflight[s] > 0 THEN concurrent \cup {s} ELSE concurrent
    /\ UNCHANGED <<docs, policy, storeUp, views, committed, failed, rd, ret,
                   resp>>

\* The store executes one increment statement; the awaited promise resolves.
IncrementCommit(s) ==
    /\ storeUp
    /\ inflight[s] > 0
    /\ views' = Upsert(views, s)
    /\ inflight' = [inflight EXCEPT ![s] = @ - 1]
    /\ committed' = [committed EXCEPT ![s] = @ + 1]
    /\ UNCHANGED <<docs, policy, storeUp, failed, concurrent, rd, ret, resp>>

\* Mutant: a statement that failed is sent again.
IncrementFailRetry(s) ==
    /\ ~storeUp
    /\ inflight[s] > 0
    /\ failed' = [failed EXCEPT ![s] = @ + 1]
    /\ UNCHANGED <<docs, policy, storeUp, views, inflight, committed,
                   concurrent, rd, ret, resp>>

\* The store does not answer: the awaited promise rejects, nothing is retried.
IncrementFail(s) ==
    /\ ~storeUp
    /\ inflight[s] > 0
    /\ inflight' = [inflight EXCEPT ![s] = @ - 1]
    /\ failed' = [failed EXCEPT ![s] = @ + 1]
    /\ UNCHANGED <<docs, policy, storeUp, views, committed, concurrent, rd, ret,
                   resp>>

\* A caller calls read(slug): the point read is sent to the store.
ReadCall(s) ==
    /\ Sum(rd, ViewSlugs) < MaxReaders
    /\ rd' = [rd EXCEPT ![s] = @ + 1]
    /\ UNCHANGED <<docs, policy, storeUp, views, inflight, committed, failed,
                   concurrent, ret, resp>>

\* Mutant: the read is SELECT after INSERT ... ON CONFLICT DO NOTHING of a
\* row with count 0.
ReadReturnCreates(s) ==
    /\ storeUp
    /\ rd[s] > 0
    /\ ret' = [slug |-> s,
               value |-> <<ViewsRead(views, s)>>, error |-> << >>,
               completed |-> IF inflight[s] = 0 /\ failed[s] = 0
                             THEN <<Started(s)>> ELSE << >>,
               norow |-> (s \notin DOMAIN views)]
    /\ rd' = [rd EXCEPT ![s] = @ - 1]
    /\ views' = IF s \in DOMAIN views THEN views
                ELSE [t \in DOMAIN views \cup {s} |->
                         IF t = s THEN 0 ELSE views[t]]
    /\ UNCHANGED <<docs, policy, storeUp, inflight, committed, failed,
                   concurrent, resp>>

\* The store answers a point read of s. The result is kept with the history
\* of the slug at the moment of the read: completed is <<M>> when all M
\* increments issued so far have completed successfully, norow tells that
\* the slug had no row.
ReadReturn(s) ==
    /\ storeUp
    /\ rd[s] > 0
    /\ ret' = [slug |-> s,
               value |-> <<ViewsRead(views, s)>>, error |-> << >>,
               completed |-> IF inflight[s] = 0 /\ failed[s] = 0
                             THEN <<Started(s)>> ELSE << >>,
               norow |-> (s \notin DOMAIN views)]
    /\ rd' = [rd EXCEPT ![s] = @ - 1]
    /\ UNCHANGED <<docs, policy, storeUp, views, inflight, committed, failed,
                   concurrent, resp>>

\* The store does not answer a read of s: StorageUnavailable.
ReadFail(s) ==
    /\ ~storeUp
    /\ rd[s] > 0
    /\ ret' = [NoRet EXCEPT !.slug = s, !.error = <<"StorageUnavailable">>,
                            !.norow = (s \notin DOMAIN views)]
    /\ rd' = [rd EXCEPT ![s] = @ - 1]
    /\ UNCHANGED <<docs, policy, storeUp, views, inflight, committed, failed,
                   concurrent, resp>>

\* A request for /blog/<slug>. The handler has no await: it runs in one step.
Blog(slug) ==
    LET listing == getBlogPosts(docs, policy) IN
    /\ UNCHANGED <<docs, policy, storeUp, views, committed, failed, concurrent,
                   rd, ret>>
    /\ IF listing.ok
       THEN LET page == BlogPage(listing.posts, slug, storeUp, views) IN
            /\ resp' = [op |-> "Blog", slug |-> slug, up |-> storeUp,
                        kind |-> page.kind, body |-> page.body]
            /\ inflight' = IF page.kind = "page" /\ slug \in ViewSlugs
                           THEN TrackView(inflight, slug)
                           ELSE inflight
       ELSE /\ resp' = [op |-> "Blog", slug |-> slug, up |-> storeUp,
                        kind |-> "MalformedMetadata", body |-> << >>]
            /\ inflight' = inflight

\* Mutant: the sitemap sorts the records of the collection in place.
SitemapSortsInPlace(today) ==
    LET listing == getBlogPosts(docs, policy) IN
    /\ docs' = IF listing.ok THEN listing.posts ELSE docs
    /\ UNCHANGED <<policy, storeUp, views, inflight, committed, failed,
                   concurrent, rd, ret>>
    /\ resp' = IF listing.ok
               THEN [op |-> "sitemap", kind |-> "ok",
                     body |-> sitemap(listing.posts, today)]
               ELSE [op |-> "sitemap", kind |-> "MalformedMetadata", body |-> << >>]

\* A request for the sitemap on the day today.
Sitemap(today) ==
    LET listing == getBlogPosts(docs, policy) IN
    /\ UNCHANGED <<docs, policy, storeUp, views, inflight, committed, failed,
                   concurrent, rd, ret>>
    /\ resp' = IF listing.ok
               THEN [op |-> "sitemap", kind |-> "ok",
                     body |-> sitemap(listing.posts, today)]
               ELSE [op |-> "sitemap", kind |-> "MalformedMetadata", body |-> << >>]

\* The backing store becomes unreachable, and reachable again.
Outage ==
    /\ storeUp
    /\ storeUp' = FALSE
    /\ UNCHANGED <<docs, policy, views, inflight, committed, failed, concurrent,
                   rd, ret, resp>>

Recover ==
    /\ ~storeUp
    /\ storeUp' = TRUE
    /\ UNCHANGED <<docs, policy, views, inflight, committed, failed, concurrent,
                   rd, ret, resp>>

Next ==
    \/ \E s \in ViewSlugs : IncrementCall(s) /\ UNCHANGED cl
    \/ \E s \in ViewSlugs : IncrementCommit(s) /\ UNCHANGED cl
    \/ \E s \in ViewSlugs : IncrementFail(s) /\ UNCHANGED cl
    \/ \E s \in ViewSlugs : ReadCall(s) /\ UNCHANGED cl
    \/ \E s \in ViewSlugs : ReadReturn(s) /\ UNCHANGED cl
    \/ \E s \in ViewSlugs : ReadFail(s) /\ UNCHANGED cl
    \/ \E s \in Slugs : Blog(s) /\ UNCHANGED cl
    \/ \E t \in Dates : Sitemap(t) /\ UNCHANGED cl
    \/ Outage /\ UNCHANGED cl
    \/ Recover /\ UNCHANGED cl

Spec == Init /\ [][Next]_vars

NextContent ==
    \/ \E s \in Slugs : Blog(s) /\ UNCHANGED cl
    \/ \E t \in Dates : Sitemap(t) /\ UNCHANGED cl

SpecContent == InitContent /\ [][NextContent]_vars

\* The caller calls read(s) when its previous read has been answered.
ClCall(s) ==
    /\ Sum(rd, ViewSlugs) = 0
    /\ ReadCall(s)
    /\ cl' = [cl EXCEPT !.lo = <<committed[s]>>]

\* The caller's read of s is answered: obs keeps the value with a, the
\* increments committed before the read was called, b, the increments
\* started before it ended, and the value of the caller's previous read of s.
ClReturn(s) ==
    /\ ReadReturn(s)
    /\ cl' = [lo |-> << >>,
              last |-> [cl.last EXCEPT ![s] = ret'.value],
              obs |-> [slug |-> s, v |-> ret'.value[1], lo |-> cl.lo[1],
                       hi |-> Started(s), prev |-> cl.last[s]]]

ClFail(s) ==
    /\ ReadFail(s)
    /\ cl' = [cl EXCEPT !.lo = << >>]

\* The view counter with one caller reading while others increment.
NextReads ==
    \/ \E s \in ViewSlugs : IncrementCall(s) /\ UNCHANGED cl
    \/ \E s \in ViewSlugs : IncrementCommit(s) /\ UNCHANGED cl
    \/ \E s \in ViewSlugs : IncrementFail(s) /\ UNCHANGED cl
    \/ \E s \in ViewSlugs : ClCall(s)
    \/ \E s \in ViewSlugs : ClReturn(s)
    \/ \E s \in ViewSlugs : ClFail(s)
    \/ Outage /\ UNCHANGED cl
    \/ Recover /\ UNCHANGED cl

SpecReads == Init /\ [][NextReads]_vars

\* formatDate(date) is evaluated on the day today; resp keeps the inputs
\* with the result.
FormatDate(date, today) ==
    /\ resp' = [op |-> "formatDate", date |-> date, today |-> today,
                out |-> formatDate(date, today)]
    /\ UNCHANGED <<docs, policy, storeUp, views, inflight, committed, failed,
                   concurrent, rd, ret, cl>>

NextDate == \E date \in FormatDates, today \in FormatDates : FormatDate(date, today)

SpecDate == Init /\ [][NextDate]_vars

\* The store answers every statement it was sent: the statement commits, or
\* it fails when the store is unreachable.
Answer(s) == (IncrementCommit(s) \/ IncrementFail(s)) /\ UNCHANGED cl

\* Increments and page renders, with the store answering every statement.
NextLive ==
    \/ \E s \in ViewSlugs : IncrementCall(s) /\ UNCHANGED cl
    \/ \E s \in ViewSlugs : IncrementCommit(s) /\ UNCHANGED cl
    \/ \E s \in ViewSlugs : IncrementFail(s) /\ UNCHANGED cl
    \/ \E s \in Slugs : Blog(s) /\ UNCHANGED cl
    \/ Outage /\ UNCHANGED cl
    \/ Recover /\ UNCHANGED cl

SpecLive ==
    /\ Init
    /\ [][NextLive]_vars
    /\ \A s \in ViewSlugs : WF_vars(Answer(s))

\* ================================================================== claims
Answered == ret.slug # "" /\ ret.error = << >>

\* C1: no lost updates. A read(slug) that the store answers when every
\* increment(slug) issued so far has completed successfully, in whatever
\* interleaving the increments were executed, returns the number of
\* increments issued.
C1_NoLostUpdates ==
    (Answered /\ ret.completed # << >>) => ret.value = ret.completed

\* The increments of one slug were in flight together, all completed, and a
\* later read returned their number.
C1_Witness ==
    /\ Answered /\ ret.slug \in concurrent
    /\ ret.completed = <<MaxIncr>> /\ ret.value = <<MaxIncr>>

\* C2: N increments of a slug executed one after another, each completing
\* before the next starts, leave the store in a state where read(slug) is N.
C2_SequentialCount ==
    \A s \in ViewSlugs :
        (s \notin concurrent /\ inflight[s] = 0 /\ failed[s] = 0)
            => ViewsRead(views, s) = Started(s)

\* Three sequential increments of b, then a read of b that returned 3.
C2_Witness ==
    /\ "b" \notin concurrent /\ inflight["b"] = 0 /\ failed["b"] = 0
    /\ Started("b") = 3
    /\ Answered /\ ret.slug = "b" /\ ret.value = <<3>>

\* C3: a read of a slug without a row that the store answers returns 0 and
\* no error: the only error of a read is StorageUnavailable, raised when the
\* store does not answer.
C3_ReadMissingIsZero ==
    /\ (Answered /\ ret.norow) => ret.value = <<0>>
    /\ (ret.slug # "" /\ ret.error # << >>)
          => (ret.error = <<"StorageUnavailable">> /\ ret.value = << >>)

\* A read of a slug that has no row returned 0 while an increment of the
\* slug was still in flight.
C3_Witness ==
    /\ Answered /\ ret.norow /\ ret.value = <<0>>
    /\ committed[ret.slug] = 0 /\ inflight[ret.slug] > 0

\* C4: no step of any operation lowers the value read(slug) would return.
C4_Monotonic ==
    [][\A s \in ViewSlugs : ViewsRead(views', s) >= ViewsRead(views, s)]_vars

\* A count reached 2 while another increment of the slug had failed and a
\* page had been rendered.
C4_Witness ==
    \E s \in ViewSlugs :
        /\ ViewsRead(views, s) = 2 /\ failed[s] = 1
        /\ resp.op = "Blog" /\ resp.slug = s /\ resp.kind = "page"

Listing == getBlogPosts(docs, policy)

ListedSlugs == {Listing.posts[i].slug : i \in 1..Len(Listing.posts)}

\* A step is the render of the Blog page requested with the slug of resp'.
BlogStep == resp'.op = "Blog" /\ Blog(resp'.slug)

C7_NotFound ==
    (resp.op = "Blog" /\ Listing.ok)
        => /\ resp.slug \notin ListedSlugs
                => (resp.kind = "notFound" /\ resp.body = << >>)
           /\ resp.slug \in ListedSlugs
                => (resp.kind = "page" /\ resp.body[1].slug = resp.slug)

\* Posts are listed, the requested slug is none of theirs, the response is
\* not-found.
C7_Witness ==
    /\ resp.op = "Blog" /\ resp.kind = "notFound"
    /\ Listing.ok /\ Len(Listing.posts) >= 2
    /\ resp.slug \notin ListedSlugs

\* C8: every adjacent pair (x, y) of the listing has x published after y, or
\* on the same date with x's slug before y's; the example lists as [b, a].
C8_ListingOrder ==
    LET posts == Listing.posts IN
    /\ \A i \in 1..(Len(posts) - 1) :
          \/ posts[i].metadata.publishedAt > posts[i + 1].metadata.publishedAt
          \/ /\ posts[i].metadata.publishedAt = posts[i + 1].metadata.publishedAt
             /\ SlugOrd(posts[i].slug) < SlugOrd(posts[i + 1].slug)
    /\ docs = ExampleDocs => <<posts[1].slug, posts[2].slug>> = <<"b", "a">>

\* A listing of three posts, two of them of the same date, enumerated by the
\* directory in another order than the listing's, was served.
C8_Witness ==
    LET posts == Listing.posts IN
    /\ resp.op = "sitemap" /\ resp.kind = "ok"
    /\ Len(posts) = 3 /\ posts # docs
    /\ \E i \in 1..2 :
          posts[i].metadata.publishedAt = posts[i + 1].metadata.publishedAt
    /\ \E i \in 1..2 :
          posts[i].metadata.publishedAt > posts[i + 1].metadata.publishedAt

Malformed == {i \in 1..Len(docs) : \E f \in Fields : f \notin DOMAIN docs[i].metadata}

\* C9: one policy for every malformed document: under "exclude" the listing
\* is exactly the well-formed documents, under "fail" a collection with a
\* malformed document has no listing at all; a listed post has its title,
\* publishedAt and summary, and so has every page and sitemap entry served.
C9_NoPartialRecord ==
    /\ Listing.ok
          => /\ \A i \in 1..Len(Listing.posts), f \in Fields :
                    f \in DOMAIN Listing.posts[i].metadata
             /\ Len(Listing.posts) = Len(docs) - Cardinality(Malformed)
    /\ policy = "exclude" => Listing.ok
    /\ policy = "fail" => (Listing.ok <=> Malformed = {})
    /\ (resp.op = "Blog" /\ resp.kind = "page")
          => /\ resp.body[1].headline # << >>
             /\ resp.body[1].datePublished # << >>
             /\ resp.body[1].description # << >>
    /\ (resp.op = "sitemap" /\ resp.kind = "ok")
          => \A i \in 1..Len(resp.body) : resp.body[i].lastModified # << >>
    /\ resp.kind = "MalformedMetadata" => (policy = "fail" /\ Malformed # {})

\* A collection with a document without a title and a well-formed one was
\* listed under the exclusion policy and served by the sitemap.
C9_Witness ==
    /\ policy = "exclude"
    /\ \E i \in Malformed : "title" \notin DOMAIN docs[i].metadata
    /\ resp.op = "sitemap" /\ resp.kind = "ok" /\ Len(resp.body) = 5

\* A collection with a malformed document failed as a whole under the
\* failure policy.
C9_WitnessFail ==
    /\ policy = "fail" /\ Malformed # {} /\ Len(docs) > Cardinality(Malformed)
    /\ resp.op = "Blog" /\ resp.kind = "MalformedMetadata"

\* C10: the sitemap is the four routes '', '/about', '/blog', '/uses' in
\* that order, then one entry per listed post in the listing's order, with
\* url origin/blog/<slug> and lastModified the post's publishedAt.
C10_Sitemap ==
    (resp.op = "sitemap" /\ resp.kind = "ok")
        => LET posts == Listing.posts
               b == resp.body
           IN  /\ Len(b) = 4 + Len(posts)
               /\ <<b[1].url, b[2].url, b[3].url, b[4].url>> =
                     <<"https://leerob.io", "https://leerob.io/about",
                       "https://leerob.io/blog", "https://leerob.io/uses">>
               /\ \A i \in 1..Len(posts) :
                     /\ b[4 + i].url = "https://leerob.io/blog/" \o posts[i].slug
                     /\ b[4 + i].lastModified = <<posts[i].metadata.publishedAt>>
               /\ \A i \in 1..Len(b) : DOMAIN b[i] = {"url", "lastModified"}

\* A sitemap of three posts was served: seven entries.
C10_Witness ==
    /\ resp.op = "sitemap" /\ resp.kind = "ok"
    /\ Len(Listing.posts) = 3 /\ Len(resp.body) = 7

\* C11: the row of a slug is created by the first increment of the slug
\* that commits and is never deleted: a row that exists still exists after
\* every step, and once a read of the slug has returned a value of at
\* least 1 the row exists in every later state.
C11_RowLifecycle ==
    [][\A s \in ViewSlugs :
          /\ s \in DOMAIN views => s \in DOMAIN views'
          /\ committed'[s] > committed[s] => s \in DOMAIN views'
          /\ (s \notin DOMAIN views /\ s \in DOMAIN views')
                => (committed[s] = 0 /\ committed'[s] = 1)
          /\ (cl.obs.slug = s /\ cl.obs.v >= 1) => s \in DOMAIN views'
          /\ (cl'.obs.slug = s /\ cl'.obs.v >= 1) => s \in DOMAIN views'
      ]_vars

\* A read returned 1 for a slug, two more increments of it were answered
\* later, and the row is there.
C11_Witness ==
    \E s \in ViewSlugs :
        /\ cl.obs.slug = s /\ cl.obs.v = 1
        /\ s \in DOMAIN views /\ views[s] = 2
        /\ failed[s] = 1

\* The positions of the listing that hold a record of the slug.
Hits(slug) == {j \in 1..Len(Listing.posts) : Listing.posts[j].slug = slug}

C12_WitnessAllValid ==
    /\ Len(docs) = 3 /\ Malformed = {}
    /\ Len(Listing.posts) = 3
    /\ resp.op = "Blog" /\ resp.kind = "page"

\* C13: nothing is retried. A statement is sent to the store only by a call
\* of increment, one per call; a statement that failed is gone and leaves
\* the table as it was; no step, the render of a page included, raises a
\* count by more than 1, and a count never exceeds the statements that
\* were sent and did not fail.
C13_NoRetry ==
    [][\A s \in ViewSlugs :
          /\ Started(s)' <= Started(s) + 1
          /\ Started(s)' > Started(s)
                => (inflight'[s] = inflight[s] + 1 /\ views' = views)
          /\ failed'[s] > failed[s]
                => /\ failed'[s] = failed[s] + 1
                   /\ inflight'[s] = inflight[s] - 1
                   /\ views' = views
          /\ ViewsRead(views', s) <= ViewsRead(views, s) + 1
          /\ (resp'.op = "Blog" /\ Blog(resp'.slug)) => views' = views
          /\ ViewsRead(views', s) <= Started(s)' - failed'[s]
      ]_vars

\* The single increment of a slug failed during an outage; the store is
\* back, nothing is in flight, and the slug has no row.
C13_Witness ==
    \E s \in ViewSlugs :
        /\ failed[s] = 1 /\ Started(s) = 1
        /\ storeUp
        /\ s \notin DOMAIN views
        /\ resp.op = "Blog" /\ resp.kind = "page" /\ resp.slug = s

C15_ReadOnly ==
    [][(rd' # rd)
          => /\ views' = views
             /\ DOMAIN views' = DOMAIN views
             /\ inflight' = inflight
             /\ committed' = committed
             /\ failed' = failed
      ]_vars

\* A read of a slug without a row was answered with 0 and the slug has no
\* row; the other slug has its row and count, and increments are in flight.
C15_Witness ==
    \E s \in ViewSlugs, t \in ViewSlugs :
        /\ s # t
        /\ cl.obs.slug = s /\ cl.obs.v = 0
        /\ ret.slug = s /\ ret.value = <<0>> /\ ret.norow
        /\ s \notin DOMAIN views
        /\ inflight[s] = 1
        /\ t \in DOMAIN views /\ views[t] = 2

\* The enumeration orders of a collection.
Orders(ds) ==
    LET n == Len(ds)
        perms == {f \in [1..n -> 1..n] : \A i, j \in 1..n : f[i] = f[j] => i = j}
    IN  {[i \in 1..n |-> ds[f[i]]] : f \in perms}

\* C16: the listing does not depend on the order in which the directory is
\* enumerated: every enumeration order of the collection gives the same
\* outcome and the same sequence of records. A request served after
\* another one traverses the listing from its first record again: a sitemap
\* has the entry of every record, a Blog page is found for the slug of
\* every record, the first included.
C16_Deterministic ==
    [][/\ \A ds \in Orders(docs) : getBlogPosts(ds, policy) = Listing
       /\ (resp.op # "none" /\ resp'.op = "sitemap" /\ Listing.ok)
             => /\ Len(resp'.body) = Len(Routes) + Len(Listing.posts)
                /\ \A j \in 1..Len(Listing.posts) :
                      resp'.body[Len(Routes) + j] = PostEntry(Listing.posts[j])
       /\ (resp.op # "none" /\ resp'.op = "Blog" /\ Listing.ok)
             => (resp'.kind = "page" <=> resp'.slug \in ListedSlugs)
      ]_vars

\* Three documents of which two have the same date are enumerated with the
\* two in descending order of slug, and the page of the record that is
\* first in the listing was served.
C16_Witness ==
    /\ Len(docs) = 3 /\ Len(Listing.posts) = 3
    /\ \E i, j \in 1..3 :
          /\ i < j
          /\ docs[i].metadata.publishedAt = docs[j].metadata.publishedAt
          /\ SlugOrd(docs[i].slug) > SlugOrd(docs[j].slug)
    /\ resp.op = "Blog" /\ resp.kind = "page"
    /\ resp.slug = Listing.posts[1].slug

\* C17: Post records are immutable at runtime: no operation, a page
\* render, a sitemap, an increment, a read or a change of the store's
\* availability, adds, removes or changes a document of the collection or
\* the policy of its listing, so the listing is the same in every state.
C17_PostsImmutable ==
    [][docs' = docs /\ policy' = policy]_vars

\* Increments committed and failed, a read was answered, a page and then a
\* sitemap were served, and the collection is the one the process started
\* with.
C17_Witness ==
    /\ docs = ExampleDocs
    /\ Listing.posts = <<ExampleDocs[2], ExampleDocs[1]>>
    /\ \E s \in ViewSlugs : committed[s] >= 1
    /\ \E s \in ViewSlugs : failed[s] >= 1
    /\ Answered
    /\ resp.op = "sitemap" /\ resp.kind = "ok"

\* The outcomes of a request for a Blog page.
FullPage ==
    resp.kind = "page" /\ Len(resp.body) = 1 /\ resp.body[1].views # << >>

DegradedPage ==
    resp.kind = "page" /\ Len(resp.body) = 1 /\ resp.body[1].views = << >>

NotFoundPage == resp.kind = "notFound" /\ resp.body = << >>

\* C18: no operation is fatal. A request for a Blog page, of a listed slug
\* or not, with the store up or down, with increments in flight, committed
\* or failed, ends as the full page, the page without a view count or the
\* not-found response, exactly one of them; a page with a count is served
\* only if the store answered, not-found only for a slug that is not
\* listed; and after every step the process can serve a request.
C18_NotFatal ==
    /\ resp.op = "Blog"
          => /\ FullPage \/ DegradedPage \/ NotFoundPage
             /\ ~(FullPage /\ DegradedPage)
             /\ ~(FullPage /\ NotFoundPage)
             /\ ~(DegradedPage /\ NotFoundPage)
             /\ FullPage => resp.up
             /\ NotFoundPage <=> resp.slug \notin ListedSlugs
    /\ ENABLED (\E s \in Slugs : Blog(s) /\ UNCHANGED cl)

\* A request for a slug that is not listed ended in not-found during an
\* outage in which an increment failed, after statements were in flight
\* together.
C18_Witness ==
    /\ resp.op = "Blog" /\ NotFoundPage
    /\ ~resp.up /\ ~storeUp
    /\ \E s \in ViewSlugs : failed[s] > 0
    /\ concurrent # {}

\* C19: an increment takes effect in one step. The step in which the store
\* commits a statement of a slug takes the slug from no row to a row with
\* count 1, or from a row with count c to count c + 1, and answers the
\* statement in the same step; the table changes in no other step, and no
\* state shows a row with a count below 1.
C19_AtomicIncrement ==
    [][/\ \A s \in ViewSlugs :
             committed'[s] > committed[s]
                => /\ committed'[s] = committed[s] + 1
                   /\ inflight'[s] = inflight[s] - 1
                   /\ s \in DOMAIN views'
                   /\ views'[s] = IF s \in DOMAIN views THEN views[s] + 1 ELSE 1
       /\ views' # views => \E s \in ViewSlugs : committed'[s] > committed[s]
       /\ \A s \in DOMAIN views' : views'[s] >= 1
      ]_vars

\* One slug went from no row to count 1 and then to count 2 by statements
\* that were in flight together; the other slug has a row with count 1.
C19_Witness ==
    \E s \in ViewSlugs, t \in ViewSlugs :
        /\ s # t
        /\ s \in concurrent
        /\ DOMAIN views = {s, t}
        /\ views[s] = 2 /\ views[t] = 1
        /\ inflight[s] = 0 /\ inflight[t] = 0

\* C20: a read that was answered returned a value v with a <= v <= b, a the
\* increments of the slug committed before the read was called and b the
\* increments of the slug started before the read ended; and v is not
\* below the value the same caller's previous read of the slug returned.
C20_ReadInterval ==
    cl.obs.slug # ""
       => /\ cl.obs.lo <= cl.obs.v
          /\ cl.obs.v <= cl.obs.hi
          /\ cl.obs.prev # << >> => cl.obs.prev[1] <= cl.obs.v

\* The caller read 1, called a second read, two more increments of the slug
\* were started and one of them committed before the read was answered: it
\* returned 2, strictly between a = 1 and b = 3.
C20_Witness ==
    /\ cl.obs.slug # ""
    /\ cl.obs.prev = <<1>>
    /\ cl.obs.lo = 1 /\ cl.obs.v = 2 /\ cl.obs.hi = 3
    /\ inflight[cl.obs.slug] = 1

\* C21: increment(slug) changes only the row of its slug. In the step that
\* commits a statement of a slug, inserting its row or updating it, every
\* other slug has a row after the step exactly if it had one before, with
\* the same count; the call and the failure of a statement change no row.
C21_IncrementFrame ==
    [][\A s \in ViewSlugs :
          /\ committed'[s] > committed[s]
                => \A t \in ViewSlugs \ {s} :
                      /\ t \in DOMAIN views' <=> t \in DOMAIN views
                      /\ t \in DOMAIN views => views'[t] = views[t]
          /\ (inflight'[s] > inflight[s] \/ failed'[s] > failed[s])
                => views' = views
      ]_vars

\* A slug's row was inserted and then updated, one statement at a time,
\* while the other slug kept its row with count 1.
C21_Witness ==
    \E s \in ViewSlugs, t \in ViewSlugs :
        /\ s # t
        /\ concurrent = {}
        /\ DOMAIN views = {s, t}
        /\ views[s] = 2 /\ committed[s] = 2
        /\ views[t] = 1 /\ committed[t] = 1

\* C22: in every state a slug has a row exactly if an increment of the slug
\* has committed, every row has a count of at least 1, and the count of a
\* row is the number of increments of its slug committed so far.
C22_RowIffCommitted ==
    /\ DOMAIN views \subseteq ViewSlugs
    /\ \A s \in ViewSlugs :
          /\ s \in DOMAIN views <=> committed[s] >= 1
          /\ s \in DOMAIN views => (views[s] >= 1 /\ views[s] = committed[s])

\* One slug has a row with count 2 after two commits in flight together,
\* the other has no row: its only increment failed.
C22_Witness ==
    \E s \in ViewSlugs, t \in ViewSlugs :
        /\ s \in concurrent
        /\ DOMAIN views = {s}
        /\ views[s] = 2 /\ committed[s] = 2
        /\ t \notin DOMAIN views /\ failed[t] = 1 /\ committed[t] = 0

\* The calendar: the days of a month, the number of a day counted from
\* 1 January of year 0, the days and the full months and years from a date
\* to a later one.
IsLeap(y) == (y % 4 = 0 /\ y % 100 # 0) \/ y % 400 = 0

DaysInMonth(y, m) ==
    IF m = 2 THEN (IF IsLeap(y) THEN 29 ELSE 28)
    ELSE IF m \in {4, 6, 9, 11} THEN 30 ELSE 31

RECURSIVE DaysBeforeMonth(_, _)
DaysBeforeMonth(y, m) ==
    IF m = 1 THEN 0 ELSE DaysBeforeMonth(y, m - 1) + DaysInMonth(y, m - 1)

DaysBeforeYear(y) ==
    365 * y + ((y + 3) \div 4) - ((y + 99) \div 100) + ((y + 399) \div 400)

DayNumber(date) ==
    DaysBeforeYear(FullYear(date)) + DaysBeforeMonth(FullYear(date), MonthOf(date))
        + DateOf(date)

ElapsedDays(from, to) == DayNumber(to) - DayNumber(from)

ElapsedMonths(from, to) ==
    12 * (FullYear(to) - FullYear(from)) + (MonthOf(to) - MonthOf(from))
        - (IF DateOf(to) < DateOf(from) THEN 1 ELSE 0)

ElapsedYears(from, to) == ElapsedMonths(from, to) \div 12

Formatted == resp.op = "formatDate"

\* C23 as stated: for a publication date on or before the current date the
\* label 'Ny ago' is given only if at least N full years have elapsed,
\* 'Nmo ago' only if at least N full months have elapsed, 'Nd ago' only if
\* exactly N days have elapsed; 31 December seen on the next 1 January is
\* '1d ago'.
C23_LabelElapsed ==
    (Formatted /\ resp.date <= resp.today)
       => LET l == resp.out.label IN
          /\ l.unit = "y ago" => ElapsedYears(resp.date, resp.today) >= l.n
          /\ l.unit = "mo ago" => ElapsedMonths(resp.date, resp.today) >= l.n
          /\ l.unit = "d ago" => ElapsedDays(resp.date, resp.today) = l.n
          /\ (resp.date = 20221231 /\ resp.today = 20230101)
                => l = [n |-> 1, unit |-> "d ago"]

\* C24 as stated: for a publication date on or before the current date the
\* label is 'Today' exactly if the two are the same calendar day; for a
\* publication date after the current date the label is none of 'Nd ago',
\* 'Nmo ago', 'Ny ago'.
C24_TodayIffSameDay ==
    Formatted
       => LET l == resp.out.label IN
          /\ resp.date <= resp.today
                => (l.unit = "Today" <=> resp.date = resp.today)
          /\ resp.date > resp.today
                => l.unit \notin {"d ago", "mo ago", "y ago"}

====
